---- MODULE Spec2Model ----
(***************************************************************************)
(* Model of flaskProject/main.py and flaskProject/validator.py: four       *)
(* in-memory entity stores (products, employees, customers, sales) and the *)
(* GET / POST / PUT / DELETE route handlers that read and mutate them.     *)
(*                                                                         *)
(* One request is handled from start to end by one action.  After the      *)
(* response the server is back waiting (Await); a client may also re-send  *)
(* the request it just sent (Repeat).                                      *)
(***************************************************************************)
EXTENDS Integers, Sequences, FiniteSets, TLC

(***************************************************************************)
(* Bounds                                                                  *)
(***************************************************************************)
\* number of uuid.uuid4() values handed out in one behaviour
MaxUuid == 1

(***************************************************************************)
(* Python values.  A value is a record [t, v]; t is the Python type.       *)
(***************************************************************************)
PyInt(n) == [t |-> "int", v |-> n]
PyStr(s) == [t |-> "str", v |-> s]
\* a float, held in hundredths (1.25 is PyFloat(125))
PyFloat(c) == [t |-> "float", v |-> c]
\* the n-th uuid.UUID object produced by uuid.uuid4()
PyUuid(n) == [t |-> "uuid", v |-> n]
\* the str form of the n-th UUID, as Flask's JSON encoder writes it
UuidText(n) == [t |-> "uuidstr", v |-> n]
\* a nested mapping produced by xmltodict for the children of the root
PyMap(s) == [t |-> "map", v |-> s]

\* Python's == on the values above: int and float compare numerically,
\* every other pair of different types is unequal
PyEq(a, b) ==
    IF a.t = b.t THEN a.v = b.v
    ELSE IF a.t = "int" /\ b.t = "float" THEN a.v * 100 = b.v
    ELSE IF a.t = "float" /\ b.t = "int" THEN a.v = b.v * 100
    ELSE FALSE

\* decimal texts the requests use as path values
DecimalOf ==
    ("1" :> 1) @@ ("2" :> 2) @@ ("3" :> 3) @@
    ("100" :> 100) @@ ("101" :> 101) @@ ("102" :> 102) @@
    ("10" :> 10) @@ ("11" :> 11) @@ ("12" :> 12) @@
    ("21" :> 21) @@ ("22" :> 22) @@ ("23" :> 23) @@ ("4" :> 4)

\* int(text): the number for a decimal text, ValueError for any other text
int(text) ==
    IF text \in DOMAIN DecimalOf
    THEN [ok |-> TRUE, val |-> PyInt(DecimalOf[text])]
    ELSE [ok |-> FALSE, val |-> PyInt(0)]

(***************************************************************************)
(* Records (Python dicts): functions from field names to values            *)
(***************************************************************************)
EmptyDict == [f \in {} |-> PyInt(0)]

\* d[key] = value
SetItem(d, key, value) ==
    [f \in (DOMAIN d) \cup {key} |-> IF f = key THEN value ELSE d[f]]

HasKey(d, key) == key \in DOMAIN d

(***************************************************************************)
(* Entity families and the seed data                                       *)
(***************************************************************************)
Families == {"product", "employee", "customer", "sale"}

\* the module-level list each family's routes are named after
ListOf(fam) ==
    CASE fam = "product" -> "products"
      [] fam = "employee" -> "employees"
      [] fam = "customer" -> "customers"
      [] fam = "sale" -> "sales"

\* the identifier field of the records of each family
IdField(fam) ==
    CASE fam = "product" -> "productID"
      [] fam = "employee" -> "employeeID"
      [] fam = "customer" -> "customerID"
      [] fam = "sale" -> "salesID"

SeedProducts == <<
    [productID |-> PyInt(1), name |-> PyStr("cat food"), price |-> PyFloat(125)],
    [productID |-> PyInt(2), name |-> PyStr("dog food"), price |-> PyFloat(535)],
    [productID |-> PyInt(3), name |-> PyStr("guinea pig food"), price |-> PyFloat(1200)] >>

SeedEmployees == <<
    [employeeID |-> PyInt(100), firstName |-> PyStr("Pieter"), middleInitial |-> PyStr(""), lastName |-> PyStr("Post")],
    [employeeID |-> PyInt(101), firstName |-> PyStr("Jannie"), middleInitial |-> PyStr(""), lastName |-> PyStr("Post")],
    [employeeID |-> PyInt(102), firstName |-> PyStr("Jannes"), middleInitial |-> PyStr(""), lastName |-> PyStr("Post")] >>

SeedCustomers == <<
    [customerID |-> PyInt(10), firstName |-> PyStr("Karel"), middleInitial |-> PyStr(""), lastName |-> PyStr("Bos")],
    [customerID |-> PyInt(11), firstName |-> PyStr("Jan"), middleInitial |-> PyStr(""), lastName |-> PyStr("Pieter")],
    [customerID |-> PyInt(12), firstName |-> PyStr("Bert"), middleInitial |-> PyStr("en"), lastName |-> PyStr("Ernie")] >>

SeedSales == <<
    [salesID |-> PyInt(21), salesPersonalID |-> PyInt(211), customerID |-> PyInt(201), productID |-> PyInt(31), quantity |-> PyInt(75)],
    [salesID |-> PyInt(22), salesPersonalID |-> PyInt(206), customerID |-> PyInt(303), productID |-> PyInt(6), quantity |-> PyInt(5)],
    [salesID |-> PyInt(23), salesPersonalID |-> PyInt(207), customerID |-> PyInt(303), productID |-> PyInt(8), quantity |-> PyInt(5)] >>

(***************************************************************************)
(* State                                                                   *)
(***************************************************************************)
VARIABLES
    products,   \* main.py global list
    employees,  \* main.py global list
    customers,  \* main.py global list
    sales,      \* main.py global list
    uuids,      \* how many uuid4() values have been produced
    req,        \* the request just handled (NoReq while waiting)
    resp,       \* the response to req
    pre,        \* the four lists as they were when req arrived
    val,        \* what the schema validator did during req
    again,      \* the response to the same request sent just before req
    thr         \* the requests being handled by concurrent threads

vars == <<products, employees, customers, sales, uuids, req, resp, pre, val, again, thr>>

\* the four lists, by name
Lists == [products |-> products, employees |-> employees,
          customers |-> customers, sales |-> sales]

(***************************************************************************)
(* Request payloads (request.data) and their decoding                      *)
(***************************************************************************)
AbsentBody == ""
GarbageBody == "{bad"
EmptyObjectBody == "{}"
ArrayBody == "[1]"
JsonObjectBody == "{\"name\":\"bird seed\",\"price\":3.5}"
XmlBody == "<product><name>bird seed</name><price>3.5</price></product>"
\* an object that brings a productID of its own, a text
TextIdBody == "{\"productID\":\"1\"}"
\* an object that brings a productID of its own, an integer
IntIdBody == "{\"productID\":1}"

Bodies == {AbsentBody, GarbageBody, EmptyObjectBody, ArrayBody, JsonObjectBody, XmlBody}

XmlContentType == "application/xml"
JsonContentType == "application/json"
\* a Content-Type that is neither of the two, and the missing header
ContentTypes == {XmlContentType, JsonContentType, "text/plain", "missing"}

DecodeError == [kind |-> "error"]
PyNone == [kind |-> "none"]

\* json.loads(text)
JsonLoads(text) ==
    CASE text = EmptyObjectBody -> [kind |-> "dict", fields |-> EmptyDict]
      [] text = ArrayBody -> [kind |-> "list", items |-> 1]
      [] text = JsonObjectBody ->
            [kind |-> "dict",
             fields |-> [name |-> PyStr("bird seed"), price |-> PyFloat(350)]]
      [] text = TextIdBody -> [kind |-> "dict", fields |-> [productID |-> PyStr("1")]]
      [] text = IntIdBody -> [kind |-> "dict", fields |-> [productID |-> PyInt(1)]]
      [] text = "[]" -> [kind |-> "list", items |-> 0]
      [] text = "null" -> [kind |-> "null"]
      [] text = "0" -> [kind |-> "number"]
      [] text = "false" -> [kind |-> "bool"]
      [] OTHER -> DecodeError

\* json.dumps(obj) for the objects json.loads produces
JsonDumps(obj) ==
    CASE obj.kind = "list" /\ obj.items > 0 -> ArrayBody
      [] obj.kind = "list" /\ obj.items = 0 -> "[]"
      [] obj.kind = "number" -> "0"
      [] obj.kind = "bool" -> "false"
      [] obj.kind = "dict" /\ DOMAIN obj.fields = {} -> EmptyObjectBody
      [] obj.kind = "dict" /\ DOMAIN obj.fields = {"productID"} ->
            IF obj.fields["productID"].t = "str" THEN TextIdBody ELSE IntIdBody
      [] obj.kind = "dict" /\ DOMAIN obj.fields \notin {{}, {"productID"}} -> JsonObjectBody
      [] OTHER -> "null"

\* xmltodict.parse(text): one key, the root element, or an ExpatError
XmlToDict(text) ==
    IF text = XmlBody
    THEN [kind |-> "dict",
          fields |-> [product |-> PyMap("name=bird seed,price=3.5")]]
    ELSE DecodeError

\* request.json: None unless the Content-Type is JSON, BadRequest when the
\* body of a JSON request does not parse
RequestJson(ctype, data) ==
    IF ctype # JsonContentType THEN PyNone ELSE JsonLoads(data)

\* bool(obj)
Truthy(obj) ==
    CASE obj.kind = "dict" -> DOMAIN obj.fields # {}
      [] obj.kind = "list" -> obj.items > 0
      [] OTHER -> FALSE

(***************************************************************************)
(* validator.py                                                            *)
(***************************************************************************)
\* what a schema file on disk can be when a validator opens it
\* ("badschema": the file parses but is not a schema)
SchemaFiles == {"ok", "missing", "undecodable", "badschema"}

\* is_valid_xml(xml): xml is what the caller passes; conforms says whether the
\* document satisfies the schema.  "raise" is an exception leaving the call.
is_valid_xml(xml, file, conforms) ==
    IF file # "ok" THEN "raise"
    ELSE IF xml.kind # "text" THEN "raise"
    ELSE IF XmlToDict(xml.text).kind = "error" THEN "raise"
    ELSE IF conforms THEN "true" ELSE "false"

\* a validator that keeps the schema file open between calls: the second
\* json.load(f) finds the file read to its end and the call returns False
is_valid_json_KeptOpen(json_string, file, conforms) ==
    IF file = "missing" THEN "raise"
    ELSE IF file = "undecodable" \/ val.called = "json" THEN "false"
    ELSE IF JsonLoads(json_string).kind = "error" THEN "raise"
    ELSE IF file = "badschema" THEN "raise"
    ELSE IF conforms THEN "true" ELSE "false"

\* is_valid_json(json_string)
is_valid_json(json_string, file, conforms) ==
    IF file = "missing" THEN "raise"
    ELSE IF file = "undecodable" THEN "false"
    ELSE IF JsonLoads(json_string).kind = "error" THEN "raise"
    ELSE IF file = "badschema" THEN "raise"
    ELSE IF conforms THEN "true" ELSE "false"

NoValidation == [called |-> "none", file |-> "none", out |-> "none"]

Validation(which, file, out) == [called |-> which, file |-> file, out |-> out]

(***************************************************************************)
(* Responses                                                               *)
(***************************************************************************)
\* Flask's JSON encoder: a UUID is written as its text, the rest as it is
JsonValue(x) == IF x.t = "uuid" THEN UuidText(x.v) ELSE x

JsonRecord(d) == [f \in DOMAIN d |-> JsonValue(d[f])]

\* jsonify(list)
jsonify(l) == [i \in 1..Len(l) |-> JsonRecord(l[i])]

\* a response without a body: abort(code), or an unhandled exception (500)
Status(code) == [status |-> code, kind |-> "none", body |-> <<>>]

\* a view returning a dict: 200 with the dict as JSON
DictResponse(d) == [status |-> 200, kind |-> "object", body |-> <<JsonRecord(d)>>]

ListResponse(l) == [status |-> 200, kind |-> "list", body |-> jsonify(l)]

\* the outcome of a handler: the lists, the uuid count, the response
Outcome(lists, u, r, v) == [lists |-> lists, uuids |-> u, resp |-> r, val |-> v]

(***************************************************************************)
(* GET /<entity>s                                                          *)
(***************************************************************************)
\* a view that serves the products list whatever the family
getAllFromProducts(fam, lists, u) ==
    Outcome(lists, u, ListResponse(lists["products"]), NoValidation)

\* getProducts, getEmployees, getCustomers, getSales
getAll(fam, lists, u) ==
    Outcome(lists, u, ListResponse(lists[ListOf(fam)]), NoValidation)

(***************************************************************************)
(* POST /<entity>s                                                         *)
(***************************************************************************)
\* every POST handler appending to the list of its own family
PostListOwn(fam) == ListOf(fam)

\* the list the POST handler of a family appends to
PostList(fam) == "products"

\* only postProducts calls the validators
Validates(fam) == fam = "product"

\* a handler that puts the new record in front: <list>.insert(0, data)
InsertNewFirst(fam, lists, u, data, v) ==
    IF data.kind # "dict"
    THEN Outcome(lists, u, Status(500), v)
    ELSE LET record == SetItem(data.fields, IdField(fam), PyUuid(u + 1))
             target == PostList(fam)
         IN Outcome([lists EXCEPT ![target] = <<record>> \o @],
                    u + 1, DictResponse(record), v)

\* data[idField] = uuid.uuid4(); <list>.append(data); return data
AppendNew(fam, lists, u, data, v) ==
    IF data.kind # "dict"
    THEN \* item assignment with a str index on a list: TypeError
         Outcome(lists, u, Status(500), v)
    ELSE LET record == SetItem(data.fields, IdField(fam), PyUuid(u + 1))
             target == PostList(fam)
         IN Outcome([lists EXCEPT ![target] = Append(@, record)],
                    u + 1, DictResponse(record), v)

\* the application/xml branch of postProducts .. postSales
PostXml(fam, lists, u, data, file, conforms) ==
    LET xmlData == XmlToDict(data) IN
    IF xmlData.kind = "error"
    THEN Outcome(lists, u, Status(500), NoValidation)
    ELSE IF Validates(fam)
    THEN LET is_valid == is_valid_xml(xmlData, file, conforms)
             v == Validation("xml", file, is_valid)
         IN CASE is_valid = "raise" -> Outcome(lists, u, Status(500), v)
              [] is_valid = "true" -> AppendNew(fam, lists, u, xmlData, v)
              [] is_valid = "false" -> Outcome(lists, u, Status(400), v)
    ELSE AppendNew(fam, lists, u, xmlData, NoValidation)

\* the other branch without its "if not request.json: abort(400)"
PostJsonUnchecked(fam, lists, u, ctype, data, file, conforms) ==
    LET jsonData == RequestJson(ctype, data) IN
    IF Validates(fam)
    THEN LET is_valid == is_valid_json(JsonDumps(jsonData), file, conforms)
             v == Validation("json", file, is_valid)
         IN CASE is_valid = "raise" -> Outcome(lists, u, Status(500), v)
              [] is_valid = "true" -> AppendNew(fam, lists, u, jsonData, v)
              [] is_valid = "false" -> Outcome(lists, u, Status(400), v)
    ELSE AppendNew(fam, lists, u, jsonData, NoValidation)

\* the other branch of postProducts .. postSales
PostJson(fam, lists, u, ctype, data, file, conforms) ==
    LET jsonData == RequestJson(ctype, data) IN
    IF jsonData.kind = "error"
    THEN \* request.json raised BadRequest
         Outcome(lists, u, Status(400), NoValidation)
    ELSE IF ~Truthy(jsonData)
    THEN Outcome(lists, u, Status(400), NoValidation)
    ELSE IF Validates(fam)
    THEN LET is_valid == is_valid_json(JsonDumps(jsonData), file, conforms)
             v == Validation("json", file, is_valid)
         IN CASE is_valid = "raise" -> Outcome(lists, u, Status(500), v)
              [] is_valid = "true" -> AppendNew(fam, lists, u, jsonData, v)
              [] is_valid = "false" -> Outcome(lists, u, Status(400), v)
    ELSE AppendNew(fam, lists, u, jsonData, NoValidation)

\* a handler that picks the branch from the look of the body, not the header
postOneSniffing(fam, lists, u, ctype, data, file, conforms) ==
    IF XmlToDict(data).kind = "dict"
    THEN PostXml(fam, lists, u, data, file, conforms)
    ELSE PostJson(fam, lists, u, ctype, data, file, conforms)

\* postProducts, postEmployees, postCustomers, postSales
postOne(fam, lists, u, ctype, data, file, conforms) ==
    IF ctype = XmlContentType
    THEN PostXml(fam, lists, u, data, file, conforms)
    ELSE PostJson(fam, lists, u, ctype, data, file, conforms)

(***************************************************************************)
(* DELETE /<entity>s/<id>                                                  *)
(***************************************************************************)
\* list.remove(x): drop the first element equal to x
RECURSIVE ListRemove(_, _)
ListRemove(l, x) ==
    IF l = <<>> THEN <<>>
    ELSE IF Head(l) = x THEN Tail(l)
    ELSE <<Head(l)>> \o ListRemove(Tail(l), x)

\* a delete handler whose remove call is outside the if: the first record
\* goes whether it matches or not
delOneRemoveAnyway(fam, lists, u, pid) ==
    LET name == ListOf(fam)
        l == lists[name]
    IN IF l = <<>> \/ ~HasKey(Head(l), IdField(fam)) \/ ~int(pid).ok
       THEN Outcome(lists, u, Status(500), NoValidation)
       ELSE Outcome([lists EXCEPT ![name] = ListRemove(l, Head(l))], u,
                    IF PyEq(Head(l)[IdField(fam)], int(pid).val)
                    THEN Status(200) ELSE Status(404),
                    NoValidation)

\* delProducts, delEmployees, delCustomers, delSales: the return statement
\* is inside the loop body, so the loop ends in its first iteration
delOne(fam, lists, u, pid) ==
    LET name == ListOf(fam)
        l == lists[name]
    IN IF l = <<>>
       THEN \* the loop body never runs and the view returns None
            Outcome(lists, u, Status(500), NoValidation)
       ELSE LET record == Head(l) IN
            IF ~HasKey(record, IdField(fam))
            THEN \* KeyError
                 Outcome(lists, u, Status(500), NoValidation)
            ELSE IF ~int(pid).ok
            THEN \* ValueError
                 Outcome(lists, u, Status(500), NoValidation)
            ELSE IF PyEq(record[IdField(fam)], int(pid).val)
            THEN Outcome([lists EXCEPT ![name] = ListRemove(l, record)],
                         u, Status(200), NoValidation)
            ELSE Outcome(lists, u, Status(404), NoValidation)

(***************************************************************************)
(* PUT /<entity>s/<id>                                                     *)
(***************************************************************************)
\* the variable part of the route of each PUT and DELETE rule
RouteVariables(method, fam) ==
    CASE method = "PUT" /\ fam = "product" -> {"productID"}
      [] method = "PUT" /\ fam = "employee" -> {"employeeID"}
      [] method = "PUT" /\ fam = "customer" -> {"customerID"}
      [] method = "PUT" /\ fam = "sale" -> {"saleID"}
      [] method = "DELETE" /\ fam = "product" -> {"pid"}
      [] method = "DELETE" /\ fam = "employee" -> {"employeeID"}
      [] method = "DELETE" /\ fam = "customer" -> {"customerID"}
      [] method = "DELETE" /\ fam = "sale" -> {"salesID"}
      [] OTHER -> {}

\* the parameters in the def line of each view function
ViewParameters(method, fam) ==
    CASE method = "DELETE" /\ fam = "product" -> {"pid"}
      [] method = "DELETE" /\ fam = "employee" -> {"employeeID"}
      [] method = "DELETE" /\ fam = "customer" -> {"customerID"}
      [] method = "DELETE" /\ fam = "sale" -> {"salesID"}
      [] OTHER -> {}

\* a dispatch that would call every view whatever parameters it declares
CallableAnyView(method, fam) == TRUE

\* Flask calls view(**view_args): a keyword the view does not declare is a
\* TypeError before the first line of the view runs
Callable(method, fam) == RouteVariables(method, fam) \subseteq ViewParameters(method, fam)

\* the field the PUT loop compares with the path value
PutField(fam) ==
    CASE fam = "product" -> "productID"
      [] fam = "employee" -> "employeeID"
      [] fam = "customer" -> "customerID"
      [] fam = "sale" -> "saleID"

\* a loop that returns in its first iteration whether or not the record matches
PutScanFirstOnly(l, i, field, pid) ==
    IF i > Len(l) THEN [kind |-> "end", index |-> 0]
    ELSE IF ~HasKey(l[i], field) THEN [kind |-> "keyerror", index |-> i]
    ELSE IF PyEq(l[i][field], pid) THEN [kind |-> "match", index |-> i]
    ELSE [kind |-> "end", index |-> 0]

\* the for loop of a PUT view from position i on: the first record that has
\* no such field (KeyError) or whose field equals the path value
RECURSIVE PutScan(_, _, _, _)
PutScan(l, i, field, pid) ==
    IF i > Len(l) THEN [kind |-> "end", index |-> 0]
    ELSE IF ~HasKey(l[i], field) THEN [kind |-> "keyerror", index |-> i]
    ELSE IF PyEq(l[i][field], pid) THEN [kind |-> "match", index |-> i]
    ELSE PutScan(l, i + 1, field, pid)

\* list.index(x): position of the first element equal to x, 0 for ValueError
RECURSIVE ListIndex(_, _, _)
ListIndex(l, x, i) ==
    IF i > Len(l) THEN 0
    ELSE IF l[i] = x THEN i
    ELSE ListIndex(l, x, i + 1)

\* the body of putProducts, putEmployees, putCustomers
PutBody(fam, lists, u, ctype, data, path) ==
    LET name == ListOf(fam)
        l == lists[name]
        pid == PyStr(path)
        hit == PutScan(l, 1, PutField(fam), pid)
    IN CASE hit.kind = "end" ->
              \* the loop ends without a return: the view returns None
              Outcome(lists, u, Status(500), NoValidation)
         [] hit.kind = "keyerror" -> Outcome(lists, u, Status(500), NoValidation)
         [] hit.kind = "match" ->
              IF ctype = XmlContentType
              THEN LET xmlData == XmlToDict(data) IN
                   IF xmlData.kind = "error"
                   THEN Outcome(lists, u, Status(500), NoValidation)
                   ELSE LET record == SetItem(xmlData.fields, PutField(fam), pid)
                            index == ListIndex(l, l[hit.index], 1)
                        IN Outcome([lists EXCEPT ![name] = [l EXCEPT ![index] = record]],
                                   u, DictResponse(record), NoValidation)
              ELSE LET jsonData == RequestJson(ctype, data) IN
                   IF jsonData.kind = "error" \/ ~Truthy(jsonData)
                   THEN Outcome(lists, u, Status(400), NoValidation)
                   ELSE IF jsonData.kind # "dict"
                   THEN Outcome(lists, u, Status(500), NoValidation)
                   ELSE LET record == SetItem(jsonData.fields, PutField(fam), PyUuid(u + 1))
                        IN Outcome([lists EXCEPT ![name] = Append(l, record)],
                                   u + 1, DictResponse(record), NoValidation)

\* the body of putSales: it indexes customers with the sale, assigns into
\* the sale record and calls append on it
PutSalesBody(lists, u, ctype, data, path) ==
    LET l == lists["sales"]
        cid == PyStr(path)
        hit == PutScan(l, 1, PutField("sale"), cid)
    IN CASE hit.kind = "end" -> Outcome(lists, u, Status(500), NoValidation)
         [] hit.kind = "keyerror" -> Outcome(lists, u, Status(500), NoValidation)
         [] hit.kind = "match" ->
              IF ctype = XmlContentType
              THEN LET xmlData == XmlToDict(data)
                       index == ListIndex(lists["customers"], l[hit.index], 1)
                   IN IF xmlData.kind = "error" \/ index = 0
                      THEN Outcome(lists, u, Status(500), NoValidation)
                      ELSE LET record == SetItem(xmlData.fields, PutField("sale"), cid)
                               \* sale[index] = xmlData adds the key index to the sale
                               sale == SetItem(l[hit.index], "[index]", PyMap("xmlData"))
                           IN Outcome([lists EXCEPT !["sales"] = [l EXCEPT ![hit.index] = sale]],
                                      u, DictResponse(record), NoValidation)
              ELSE LET jsonData == RequestJson(ctype, data) IN
                   IF jsonData.kind = "error" \/ ~Truthy(jsonData)
                   THEN Outcome(lists, u, Status(400), NoValidation)
                   ELSE IF jsonData.kind # "dict"
                   THEN Outcome(lists, u, Status(500), NoValidation)
                   ELSE \* sale.append: a dict has no append, AttributeError; the
                        \* uuid drawn for it is dropped with the request
                        Outcome(lists, u, Status(500), NoValidation)

\* putProducts, putEmployees, putCustomers, putSales as Flask runs them
putOne(fam, lists, u, ctype, data, path) ==
    IF ~Callable("PUT", fam)
    THEN Outcome(lists, u, Status(500), NoValidation)
    ELSE IF fam = "sale"
    THEN PutSalesBody(lists, u, ctype, data, path)
    ELSE PutBody(fam, lists, u, ctype, data, path)

\* delProducts .. delSales as Flask runs them
deleteOne(fam, lists, u, path) ==
    IF ~Callable("DELETE", fam)
    THEN Outcome(lists, u, Status(500), NoValidation)
    ELSE delOne(fam, lists, u, path)

(***************************************************************************)
(* Requests                                                                *)
(***************************************************************************)
NoReq == [method |-> "none", fam |-> "none", ctype |-> "missing",
          data |-> AbsentBody, path |-> "", conforms |-> FALSE]

NoResp == [status |-> 0, kind |-> "none", body |-> <<>>]

GetReq(fam) == [NoReq EXCEPT !.method = "GET", !.fam = fam]

PostReq(fam, ctype, data, conforms) ==
    [NoReq EXCEPT !.method = "POST", !.fam = fam, !.ctype = ctype,
                  !.data = data, !.conforms = conforms]

PutReq(fam, path, ctype, data) ==
    [NoReq EXCEPT !.method = "PUT", !.fam = fam, !.path = path,
                  !.ctype = ctype, !.data = data]

DeleteReq(fam, path) == [NoReq EXCEPT !.method = "DELETE", !.fam = fam, !.path = path]

\* the path values sent to a family: the texts of its seed identifiers and
\* a text that is not a number
Paths(fam) ==
    CASE fam = "product" -> {"1", "2", "3", "abc"}
      [] fam = "employee" -> {"100", "101", "102", "abc"}
      [] fam = "customer" -> {"10", "11", "12", "abc"}
      [] fam = "sale" -> {"21", "22", "23", "abc"}

\* the payloads sent with PUT: a Content-Type and a body
PutPayloads == {<<XmlContentType, XmlBody>>, <<JsonContentType, JsonObjectBody>>,
                <<JsonContentType, AbsentBody>>}

\* whether a payload can satisfy the schema of its format at all
Conformance(ctype, data) ==
    IF \/ ctype = XmlContentType /\ XmlToDict(data).kind = "dict"
       \/ ctype = JsonContentType /\ JsonLoads(data).kind # "error"
    THEN BOOLEAN ELSE {FALSE}

\* the schema file a POST of the family may find on disk
FilesFor(fam) == IF Validates(fam) THEN SchemaFiles ELSE {"unread"}

\* the view Flask routes a request to
Handle(r, lists, u, file) ==
    CASE r.method = "GET" -> getAll(r.fam, lists, u)
      [] r.method = "POST" -> postOne(r.fam, lists, u, r.ctype, r.data, file, r.conforms)
      [] r.method = "PUT" -> putOne(r.fam, lists, u, r.ctype, r.data, r.path)
      [] r.method = "DELETE" -> deleteOne(r.fam, lists, u, r.path)

\* the worker threads of the server
Threads == {1, 2}

\* a thread: where it is in its view, its request, the record its loop
\* variable or payload holds, the status it answered with, and the position
\* the iterator of its for loop has reached
Thread(pc, r, record, status) ==
    [pc |-> pc, r |-> r, rec |-> record, status |-> status, i |-> 0]

NoThreads == [t \in Threads |-> Thread("none", NoReq, EmptyDict, 0)]

(***************************************************************************)
(* Actions                                                                 *)
(***************************************************************************)
Init ==
    /\ products = SeedProducts
    /\ employees = SeedEmployees
    /\ customers = SeedCustomers
    /\ sales = SeedSales
    /\ uuids = 0
    /\ req = NoReq
    /\ resp = NoResp
    /\ pre = Lists
    /\ val = NoValidation
    /\ again = NoResp
    /\ thr = NoThreads

\* the server has handled r with outcome out
Served(r, out, previous) ==
    /\ out.uuids <= MaxUuid
    /\ products' = out.lists.products
    /\ employees' = out.lists.employees
    /\ customers' = out.lists.customers
    /\ sales' = out.lists.sales
    /\ uuids' = out.uuids
    /\ req' = r
    /\ resp' = out.resp
    /\ pre' = Lists
    /\ val' = out.val
    /\ again' = previous
    /\ UNCHANGED thr

Get(fam) ==
    /\ req = NoReq
    /\ Served(GetReq(fam), getAll(fam, Lists, uuids), NoResp)

Post(fam, ctype, data, conforms) ==
    /\ req = NoReq
    /\ \E file \in FilesFor(fam) :
          Served(PostReq(fam, ctype, data, conforms),
                 postOne(fam, Lists, uuids, ctype, data, file, conforms), NoResp)

Put(fam, path, ctype, data) ==
    /\ req = NoReq
    /\ Served(PutReq(fam, path, ctype, data),
              putOne(fam, Lists, uuids, ctype, data, path), NoResp)

Delete(fam, path) ==
    /\ req = NoReq
    /\ Served(DeleteReq(fam, path), deleteOne(fam, Lists, uuids, path), NoResp)

\* the client sends the request it has just sent once more
Repeat ==
    /\ req.method \in {"GET", "PUT", "DELETE"}
    /\ again = NoResp
    /\ Served(req, Handle(req, Lists, uuids, "unread"), resp)

\* the exchange is over; the server waits for the next request
Await ==
    /\ req # NoReq
    /\ req' = NoReq
    /\ resp' = NoResp
    /\ pre' = Lists
    /\ val' = NoValidation
    /\ again' = NoResp
    /\ UNCHANGED <<products, employees, customers, sales, uuids, thr>>

Next ==
    \/ \E fam \in Families : Get(fam)
    \/ \E fam \in Families, ctype \in ContentTypes, data \in Bodies :
          \E conforms \in Conformance(ctype, data) : Post(fam, ctype, data, conforms)
    \/ \E fam \in Families, payload \in PutPayloads :
          \E path \in Paths(fam) : Put(fam, path, payload[1], payload[2])
    \/ \E fam \in Families : \E path \in Paths(fam) : Delete(fam, path)
    \/ Repeat
    \/ Await

Spec == Init /\ [][Next]_vars

(***************************************************************************)
(* The same server, sent JSON requests whose bodies bring an identifier of *)
(* their own or are empty or falsy JSON values.                            *)
(***************************************************************************)
\* valid JSON texts that "if not request.json" takes for no body
FalsyBodies == {EmptyObjectBody, "[]", "0", "false", "null"}

\* bodies that carry a productID field
IdBodies == {TextIdBody, IntIdBody}

\* the payloads sent with PUT here: those of PutPayloads and the falsy ones
JsonPutPayloads == PutPayloads \cup {<<JsonContentType, b>> : b \in FalsyBodies}

\* the path values of the PUT and DELETE requests sent here
JsonPaths(fam) == IF fam = "product" THEN {"1", "2", "3"} ELSE {"abc"}

NextJson ==
    \/ \E fam \in Families : Get(fam)
    \/ \E fam \in Families, data \in IdBodies \cup FalsyBodies :
          \E conforms \in Conformance(JsonContentType, data) :
              Post(fam, JsonContentType, data, conforms)
    \/ \E fam \in Families, payload \in JsonPutPayloads :
          \E path \in JsonPaths(fam) : Put(fam, path, payload[1], payload[2])
    \/ \E fam \in Families : \E path \in JsonPaths(fam) : Delete(fam, path)
    \/ Repeat
    \/ Await

JsonSpec == Init /\ [][NextJson]_vars

(***************************************************************************)
(* The form lookup: POST on /product, /employee, /customer, /sale          *)
(***************************************************************************)
\* the hard-coded range test of each lookup: low < int(input) < high
FormLow(fam) ==
    CASE fam = "product" -> 0
      [] fam = "employee" -> 99
      [] fam = "customer" -> 9
      [] fam = "sale" -> 20

FormHigh(fam) ==
    CASE fam = "product" -> 4
      [] fam = "employee" -> 103
      [] fam = "customer" -> 13
      [] fam = "sale" -> 24

\* the fields of the matching record the view reads for the template
FormFields(fam) ==
    CASE fam = "product" -> {"productID", "name", "price"}
      [] fam = "employee" -> {"employeeID", "firstName", "middleInitial", "lastName"}
      [] fam = "customer" -> {"customerID", "firstName", "middleInitial", "lastName"}
      [] fam = "sale" -> {"salesID", "salesPersonalID", "customerID", "productID", "quantity"}

\* render_template(..., result="yes") with the fields of the record
RecordPage(fam, record) ==
    [status |-> 200, kind |-> "page", body |-> <<[f \in FormFields(fam) |-> record[f]]>>]

\* render_template(..., noresult="No result")
NoResultPage == [status |-> 200, kind |-> "noresult", body |-> <<>>]

\* the loop of a lookup from position i on
RECURSIVE FormScan(_, _, _, _)
FormScan(l, i, fam, n) ==
    IF i > Len(l)
    THEN \* the loop ends without a return and nothing follows it in this
         \* branch: the view returns None
         Status(500)
    ELSE IF ~HasKey(l[i], IdField(fam)) THEN Status(500)
    ELSE IF PyEq(l[i][IdField(fam)], n)
    THEN IF FormFields(fam) \subseteq DOMAIN l[i]
         THEN RecordPage(fam, l[i])
         ELSE Status(500)
    ELSE FormScan(l, i + 1, fam, n)

\* getProductWithID, getEmployeeWithID, getCustomerWithID, getSaleWithID
\* for request.method == "POST"
getWithID(fam, lists, input) ==
    IF ~int(input).ok
    THEN \* ValueError
         Status(500)
    ELSE IF int(input).val.v > FormLow(fam) /\ int(input).val.v < FormHigh(fam)
    THEN FormScan(lists[ListOf(fam)], 1, fam, int(input).val)
    ELSE NoResultPage

\* the form posted to /product .. /sale with its input field
FormReq(fam, input) == [NoReq EXCEPT !.method = "FORM", !.fam = fam, !.path = input]

\* the texts typed into the form: the seed identifiers, a number outside
\* every range and a text that is not a number
FormInputs(fam) == (Paths(fam) \ {"abc"}) \cup {"4", "abc"}

Lookup(fam, input) ==
    /\ req = NoReq
    /\ Served(FormReq(fam, input),
              Outcome(Lists, uuids, getWithID(fam, Lists, input), NoValidation), NoResp)

NextForm ==
    \/ \E fam \in Families : \E input \in FormInputs(fam) : Lookup(fam, input)
    \/ \E fam \in Families : \E path \in Paths(fam) : Delete(fam, path)
    \/ \E fam \in Families, data \in {JsonObjectBody, IntIdBody} :
          \E conforms \in Conformance(JsonContentType, data) :
              Post(fam, JsonContentType, data, conforms)
    \/ Await

FormSpec == Init /\ [][NextForm]_vars

(***************************************************************************)
(* The validators called on their own                                      *)
(***************************************************************************)
\* the texts handed to a validator
ValidatorTexts == Bodies \cup {"[]", "null", "0", "false"}

\* a call of fn with an argument of Python type argType
CallReq(fn, argType, text, conforms) ==
    [NoReq EXCEPT !.method = "CALL", !.fam = fn, !.ctype = argType,
                  !.data = text, !.conforms = conforms]

\* is_valid_json(text)
ValidateJson(text, file, conforms) ==
    /\ req = NoReq
    /\ req' = CallReq("is_valid_json", "str", text, conforms)
    /\ val' = Validation("json", file, is_valid_json(text, file, conforms))
    /\ resp' = NoResp
    /\ pre' = Lists
    /\ again' = NoResp
    /\ UNCHANGED <<products, employees, customers, sales, uuids, thr>>

\* is_valid_xml(text), or is_valid_xml(xmltodict.parse(text)) as
\* postProducts calls it
ValidateXml(argType, text, file, conforms) ==
    /\ req = NoReq
    /\ req' = CallReq("is_valid_xml", argType, text, conforms)
    /\ val' = Validation("xml", file,
                 is_valid_xml(IF argType = "str"
                              THEN [kind |-> "text", text |-> text]
                              ELSE XmlToDict(text),
                              file, conforms))
    /\ resp' = NoResp
    /\ pre' = Lists
    /\ again' = NoResp
    /\ UNCHANGED <<products, employees, customers, sales, uuids, thr>>

\* what an earlier call returned or raised
Returned(out) == [status |-> 0, kind |-> out, body |-> <<>>]

\* the same validator is called once more with the same argument while the
\* schema file is as it was
ValidateAgain ==
    /\ req.method = "CALL"
    /\ again = NoResp
    /\ val' = Validation(val.called, val.file,
                 IF req.fam = "is_valid_json"
                 THEN is_valid_json(req.data, val.file, req.conforms)
                 ELSE is_valid_xml(IF req.ctype = "str"
                                   THEN [kind |-> "text", text |-> req.data]
                                   ELSE XmlToDict(req.data),
                                   val.file, req.conforms))
    /\ again' = Returned(val.out)
    /\ pre' = Lists
    /\ UNCHANGED <<products, employees, customers, sales, uuids, req, resp, thr>>

\* whether a text can satisfy a schema at all
JsonConformance(text) == IF JsonLoads(text).kind # "error" THEN BOOLEAN ELSE {FALSE}
XmlConformance(text) == IF XmlToDict(text).kind # "error" THEN BOOLEAN ELSE {FALSE}

NextValidator ==
    \/ \E text \in ValidatorTexts, file \in SchemaFiles :
          \E conforms \in JsonConformance(text) : ValidateJson(text, file, conforms)
    \/ \E text \in ValidatorTexts, file \in SchemaFiles :
          \E conforms \in XmlConformance(text) : ValidateXml("str", text, file, conforms)
    \/ \E file \in SchemaFiles, conforms \in BOOLEAN :
          ValidateXml("dict", XmlBody, file, conforms)
    \/ ValidateAgain
    \/ Await

ValidatorSpec == Init /\ [][NextValidator]_vars

(***************************************************************************)
(* Two requests handled by two threads (app.run serves each request in a   *)
(* thread of its own); a thread switch can fall between any two statements *)
(* of a view, while one list operation is indivisible.                     *)
(***************************************************************************)
\* the requests the two clients send at the same time
ConcRequests ==
    {DeleteReq("product", "1"), DeleteReq("product", "2"), DeleteReq("employee", "100"),
     PostReq("product", JsonContentType, JsonObjectBody, TRUE),
     PostReq("employee", JsonContentType, JsonObjectBody, TRUE)}

ConcInit ==
    /\ products = SeedProducts
    /\ employees = SeedEmployees
    /\ customers = SeedCustomers
    /\ sales = SeedSales
    /\ uuids = 0
    /\ req = NoReq
    /\ resp = NoResp
    /\ pre = Lists
    /\ val = NoValidation
    /\ again = NoResp
    /\ \E r1 \in ConcRequests, r2 \in ConcRequests :
          thr = (1 :> Thread("start", r1, EmptyDict, 0)) @@
                (2 :> Thread("start", r2, EmptyDict, 0))

\* a thread step that changes the lists to lists2 and the thread to next
ThreadStep(t, lists2, u, next) ==
    /\ products' = lists2.products
    /\ employees' = lists2.employees
    /\ customers' = lists2.customers
    /\ sales' = lists2.sales
    /\ uuids' = u
    /\ thr' = [thr EXCEPT ![t] = next]
    /\ UNCHANGED <<req, resp, pre, val, again>>

\* a removal by position: the head of the list goes, whatever it is
RemoveStepByPosition(l, record) ==
    IF l = <<>> THEN [ok |-> FALSE, list |-> l] ELSE [ok |-> TRUE, list |-> Tail(l)]

\* products.remove(product) in a thread: ValueError when the record is gone
RemoveStep(l, record) ==
    IF ListIndex(l, record, 1) = 0
    THEN [ok |-> FALSE, list |-> l]
    ELSE [ok |-> TRUE, list |-> ListRemove(l, record)]

\* "for product in products:" the loop variable takes the first record,
\* or the loop is over and the view returns None
DelIter(t) ==
    LET r == thr[t].r
        l == Lists[ListOf(r.fam)]
    IN /\ thr[t].pc = "start" /\ r.method = "DELETE"
       /\ ThreadStep(t, Lists, uuids,
                     IF l = <<>> THEN Thread("done", r, EmptyDict, 500)
                     ELSE Thread("compare", r, Head(l), 0))

\* "if product[...] == int(pid):"
DelCompare(t) ==
    LET r == thr[t].r
        record == thr[t].rec
    IN /\ thr[t].pc = "compare"
       /\ ThreadStep(t, Lists, uuids,
                     IF ~HasKey(record, IdField(r.fam)) \/ ~int(r.path).ok
                     THEN Thread("done", r, record, 500)
                     ELSE IF PyEq(record[IdField(r.fam)], int(r.path).val)
                     THEN Thread("remove", r, record, 0)
                     ELSE Thread("done", r, record, 404))

\* "products.remove(product)", status 200 and the return
DelRemove(t) ==
    LET r == thr[t].r
        name == ListOf(r.fam)
        removed == RemoveStep(Lists[name], thr[t].rec)
    IN /\ thr[t].pc = "remove"
       /\ ThreadStep(t, [Lists EXCEPT ![name] = removed.list], uuids,
                     Thread("done", r, thr[t].rec,
                            IF removed.ok THEN 200 ELSE 500))

\* a POST view up to and including the assignment of the identifier
PostDecode(t) ==
    LET r == thr[t].r
        out == postOne(r.fam, Lists, uuids, r.ctype, r.data, "ok", r.conforms)
        l == out.lists[PostList(r.fam)]
    IN /\ thr[t].pc = "start" /\ r.method = "POST"
       /\ out.uuids <= MaxUuid
       /\ ThreadStep(t, Lists, out.uuids,
                     IF out.resp.status = 200
                     THEN Thread("append", r, l[Len(l)], 0)
                     ELSE Thread("done", r, EmptyDict, out.resp.status))

\* "products.append(jsonData)" and the return
PostAppend(t) ==
    LET r == thr[t].r
        name == PostList(r.fam)
    IN /\ thr[t].pc = "append"
       /\ ThreadStep(t, [Lists EXCEPT ![name] = Append(@, thr[t].rec)], uuids,
                     Thread("done", r, thr[t].rec, 200))

ConcNext ==
    \E t \in Threads :
        \/ DelIter(t)
        \/ DelCompare(t)
        \/ DelRemove(t)
        \/ PostDecode(t)
        \/ PostAppend(t)

ConcSpec == ConcInit /\ [][ConcNext]_vars

(***************************************************************************)
(* The bodies of the PUT and DELETE views run statement by statement by    *)
(* one thread, each called with its route value, on the lists that POST    *)
(* requests have left.                                                     *)
(***************************************************************************)
\* how many identifiers the PUT bodies may draw beyond those of the POSTs
MaxPutUuid == 1

\* an iterator that starts over at the first record after every record
AdvanceFromFirst(i) == 1

\* the list iterator of a for loop moves on by one position
Advance(i) == i + 1

\* the requests whose view bodies are run
LoopRequests ==
    {DeleteReq("product", path) : path \in {"1", "2", "abc"}} \cup
    {DeleteReq("sale", "21")} \cup
    {PutReq(fam, "1", payload[1], payload[2]) :
        fam \in {"product", "sale"}, payload \in PutPayloads}

\* the view is entered
Begin(t, r) ==
    /\ req = NoReq
    /\ thr[t].pc \in {"none", "done"}
    /\ r.method = "PUT" => uuids < MaxUuid + MaxPutUuid
    /\ ThreadStep(t, Lists, uuids, Thread("start", r, EmptyDict, 0))

\* "for product in products:" in a PUT view: the next record, or the end of
\* the loop and of the view, which returns None
PutIter(t) ==
    LET r == thr[t].r
        l == Lists[ListOf(r.fam)]
        next == Advance(thr[t].i)
    IN /\ thr[t].pc \in {"start", "scan"} /\ r.method = "PUT"
       /\ ThreadStep(t, Lists, uuids,
                     IF next > Len(l)
                     THEN Thread("done", r, EmptyDict, 500)
                     ELSE [Thread("test", r, l[next], 0) EXCEPT !.i = next])

\* "if product["productID"] == pid:"
PutCompare(t) ==
    LET r == thr[t].r
        record == thr[t].rec
    IN /\ thr[t].pc = "test"
       /\ ThreadStep(t, Lists, uuids,
                     IF ~HasKey(record, PutField(r.fam))
                     THEN Thread("done", r, record, 500)
                     ELSE IF PyEq(record[PutField(r.fam)], PyStr(r.path))
                     THEN [thr[t] EXCEPT !.pc = "write"]
                     ELSE [thr[t] EXCEPT !.pc = "scan"])

\* the branch taken on a match, up to its return or its exception
PutWrite(t) ==
    LET r == thr[t].r
        out == IF r.fam = "sale"
               THEN PutSalesBody(Lists, uuids, r.ctype, r.data, r.path)
               ELSE PutBody(r.fam, Lists, uuids, r.ctype, r.data, r.path)
    IN /\ thr[t].pc = "write"
       /\ ThreadStep(t, out.lists, out.uuids,
                     [thr[t] EXCEPT !.pc = "done", !.status = out.resp.status])

\* a step of the thread that runs the view
HandlerStep(t) ==
    \/ DelIter(t)
    \/ DelCompare(t)
    \/ DelRemove(t)
    \/ PutIter(t)
    \/ PutCompare(t)
    \/ PutWrite(t)

\* the bodies this specification provides the lists with
LoopBodies == {TextIdBody, JsonObjectBody}

NextLoop ==
    \/ \E r \in LoopRequests : Begin(1, r)
    \/ HandlerStep(1)
    \/ /\ thr[1].pc \in {"none", "done"}
       /\ \E fam \in {"product", "sale"}, data \in LoopBodies :
             Post(fam, JsonContentType, data, TRUE)
    \/ Await

\* a thread that runs a view goes on running it
LoopSpec == Init /\ [][NextLoop]_vars /\ WF_vars(HandlerStep(1))

(***************************************************************************)
(* Properties                                                              *)
(***************************************************************************)
\* the list of a family now, and when the request arrived
ListNow(fam) == Lists[ListOf(fam)]
ListBefore(fam) == pre[ListOf(fam)]

\* the record carries the number the path text denotes in the family's
\* identifier field
Carries(record, fam, path) ==
    /\ HasKey(record, IdField(fam))
    /\ int(path).ok
    /\ PyEq(record[IdField(fam)], int(path).val)

\* the positions of l whose record carries the path's identifier
Holders(l, fam, path) == {i \in 1..Len(l) : Carries(l[i], fam, path)}

\* l without the records that carry the path's identifier
RECURSIVE Without(_, _, _)
Without(l, fam, path) ==
    IF l = <<>> THEN <<>>
    ELSE IF Carries(Head(l), fam, path) THEN Without(Tail(l), fam, path)
    ELSE <<Head(l)>> \o Without(Tail(l), fam, path)

\* x is what the JSON response shows for the stored value y
ShownAs(x, y) ==
    /\ x.v = y.v
    /\ IF y.t = "uuid" THEN x.t = "uuidstr" ELSE x.t = y.t

\* the JSON object shown is the stored record, field by field
ShowsRecord(shown, record) ==
    /\ DOMAIN shown = DOMAIN record
    /\ \A f \in DOMAIN record : ShownAs(shown[f], record[f])

\* C1: after a successful POST on /<entity>s, GET on the same /<entity>s
\* lists the created record, and the record's identifier differs from the
\* identifier of every record the family's list held before the POST.
C1_PostedRecordListed ==
    (req.method = "POST" /\ resp.status = 200) =>
        LET listed == getAll(req.fam, Lists, uuids).resp.body
            id == IdField(req.fam)
        IN /\ \E i \in 1..Len(listed) : listed[i] = resp.body[1]
           /\ \E i \in 1..Len(ListNow(req.fam)) :
                 /\ ShowsRecord(resp.body[1], ListNow(req.fam)[i])
                 /\ HasKey(ListNow(req.fam)[i], id)
                 /\ \A j \in 1..Len(ListBefore(req.fam)) :
                       HasKey(ListBefore(req.fam)[j], id) =>
                          ~PyEq(ListBefore(req.fam)[j][id], ListNow(req.fam)[i][id])

\* C2: DELETE /<entity>s/<id> for an identifier some record of the list
\* carries answers 200, removes exactly that record and leaves every other
\* record and list as it was; the same DELETE sent again answers 404.
C2_DeleteRemovesExactlyThatRecord ==
    (req.method = "DELETE") =>
        /\ (again = NoResp /\ Holders(ListBefore(req.fam), req.fam, req.path) # {}) =>
              /\ resp.status = 200
              /\ ListNow(req.fam) = Without(ListBefore(req.fam), req.fam, req.path)
              /\ \A other \in Families \ {req.fam} : ListNow(other) = ListBefore(other)
        /\ (again.status = 200) => resp.status = 404

\* C3: a POST whose Content-Type is not application/xml and whose body is
\* absent or not valid JSON answers 400 and changes none of the four lists.
C3_BadJsonPostRejected ==
    (req.method = "POST" /\ req.ctype # XmlContentType
       /\ JsonLoads(req.data).kind = "error") =>
        (resp.status = 400 /\ Lists = pre)

C3_Witness ==
    /\ req.method = "POST"
    /\ req.fam = "customer"
    /\ req.ctype = JsonContentType
    /\ req.data = GarbageBody
    /\ resp.status = 400
    /\ Len(products) > 3

\* C4: a POST with Content-Type application/xml whose document violates the
\* XML schema answers 400 and changes none of the four lists.
C4_BadXmlPostRejected ==
    (req.method = "POST" /\ req.ctype = XmlContentType
       /\ XmlToDict(req.data).kind = "dict" /\ ~req.conforms) =>
        (resp.status = 400 /\ Lists = pre)

\* C5: in each of the four lists every record has the family's identifier
\* field and no two records carry the same identifier.
C5_IdentifiersUnique ==
    \A fam \in Families :
        LET l == ListNow(fam)
            id == IdField(fam)
        IN /\ \A i \in 1..Len(l) : HasKey(l[i], id)
           /\ \A i, j \in 1..Len(l) : i # j => ~PyEq(l[i][id], l[j][id])

\* C6: a PUT on /<entity>s/<id> whose <id> some record of the list carries
\* replaces that record in place by the decoded payload with the identifier
\* set to the path value, keeps the length of the list and every other
\* record, and answers with the updated record.
C6_PutReplacesRecord ==
    (/\ req.method = "PUT"
     /\ Holders(ListBefore(req.fam), req.fam, req.path) # {}
     /\ \/ req.ctype = XmlContentType /\ XmlToDict(req.data).kind = "dict"
        \/ req.ctype # XmlContentType /\ Truthy(RequestJson(req.ctype, req.data))) =>
        \E i \in Holders(ListBefore(req.fam), req.fam, req.path) :
            LET old == ListBefore(req.fam)
                new == ListNow(req.fam)
            IN /\ resp.status = 200
               /\ Len(new) = Len(old)
               /\ \A j \in 1..Len(old) : j # i => new[j] = old[j]
               /\ HasKey(new[i], IdField(req.fam))
               /\ \/ new[i][IdField(req.fam)] = PyStr(req.path)
                  \/ new[i][IdField(req.fam)] = int(req.path).val
               /\ resp.kind = "object"
               /\ ShowsRecord(resp.body[1], new[i])

\* C7: a PUT on /<entity>s/<id> whose <id> no record of the list carries
\* ends without an error status and changes none of the four lists.
C7_PutUnknownIdIsNoOp ==
    (/\ req.method = "PUT"
     /\ Holders(ListBefore(req.fam), req.fam, req.path) = {}
     /\ \A i \in 1..Len(ListBefore(req.fam)) :
           HasKey(ListBefore(req.fam)[i], IdField(req.fam)) =>
              ~PyEq(ListBefore(req.fam)[i][IdField(req.fam)], PyStr(req.path))) =>
        (resp.status < 400 /\ Lists = pre)

\* C8: every DELETE answers 200 when it removed a record and 404 when it
\* did not; it never ends in another outcome.
C8_DeleteAnswers200Or404 ==
    (req.method = "DELETE") =>
        IF Lists # pre THEN resp.status = 200 ELSE resp.status = 404

\* C9: GET /<entity>s answers with every record of the family's list, in
\* list order, none left out and none added, changes none of the four
\* lists, and the same GET sent again gets the same answer.
C9_GetReturnsWholeList ==
    (req.method = "GET") =>
        /\ resp.status = 200
        /\ resp.kind = "list"
        /\ Len(resp.body) = Len(ListBefore(req.fam))
        /\ \A i \in 1..Len(resp.body) : ShowsRecord(resp.body[i], ListBefore(req.fam)[i])
        /\ Lists = pre
        /\ (again # NoResp => resp = again)

C9_Witness ==
    /\ req.method = "GET"
    /\ req.fam = "product"
    /\ again # NoResp
    /\ Len(resp.body) = 3
    /\ \E i \in 1..Len(products) : ~HasKey(products[i], "productID")

\* C10: a POST with Content-Type application/xml adds a record to a list
\* only if the XML schema validator returned true for the payload.
C10_XmlAppendedOnlyIfValid ==
    (req.method = "POST" /\ req.ctype = XmlContentType /\ Lists # pre) =>
        (val.called = "xml" /\ val.out = "true")

\* C11: a POST on /products with Content-Type application/xml and a
\* document that satisfies the XML schema answers 200 with the created
\* record, which is appended at the end of products with a new identifier.
C11_ValidXmlProductCreated ==
    (/\ req.method = "POST" /\ req.fam = "product"
     /\ req.ctype = XmlContentType
     /\ XmlToDict(req.data).kind = "dict"
     /\ req.conforms /\ val.file = "ok") =>
        /\ resp.status = 200
        /\ Len(products) = Len(pre.products) + 1
        /\ SubSeq(products, 1, Len(pre.products)) = pre.products
        /\ HasKey(products[Len(products)], "productID")
        /\ ShowsRecord(resp.body[1], products[Len(products)])
        /\ employees = pre.employees /\ customers = pre.customers /\ sales = pre.sales

\* C12: a request that ends in 400 or 404 leaves the four lists exactly as
\* they were before it.
C12_FailedRequestChangesNothing ==
    (req.method # "none" /\ resp.status \in {400, 404}) => Lists = pre

C12_Witness ==
    /\ req.method = "DELETE"
    /\ resp.status = 404
    /\ Holders(ListBefore(req.fam), req.fam, req.path) # {}
    /\ Len(products) > 3

C15_IdentifiersAreIntegers ==
    \A fam \in Families :
        \A i \in 1..Len(ListNow(fam)) :
            HasKey(ListNow(fam)[i], IdField(fam)) =>
                ListNow(fam)[i][IdField(fam)].t = "int"

\* C17: a DELETE whose identifier the first record of the list does not
\* carry answers 404 after looking at that record only and changes no
\* list, also when a later record carries the identifier.
C17_DeleteStopsAtFirstRecord ==
    (/\ req.method = "DELETE"
     /\ ListBefore(req.fam) # <<>>
     /\ ~Carries(Head(ListBefore(req.fam)), req.fam, req.path)) =>
        (resp.status = 404 /\ Lists = pre)

\* C19: a request addressed to one family leaves the lists of the three
\* other families as they were.
C19_OtherFamiliesUntouched ==
    (req.method # "none") =>
        \A other \in Families \ {req.fam} : ListNow(other) = ListBefore(other)

\* C20: employees, customers and sales never grow: each holds at most its
\* three seed records and nothing but seed records.
SeedOf(fam) ==
    CASE fam = "employee" -> SeedEmployees
      [] fam = "customer" -> SeedCustomers
      [] fam = "sale" -> SeedSales

C20_OtherListsNeverGrow ==
    \A fam \in {"employee", "customer", "sale"} :
        /\ Len(ListNow(fam)) <= 3
        /\ \A i \in 1..Len(ListNow(fam)) :
              \E j \in 1..Len(SeedOf(fam)) : ListNow(fam)[i] = SeedOf(fam)[j]

C20_Witness ==
    /\ req.method = "POST"
    /\ req.fam = "employee"
    /\ resp.status = 200
    /\ Len(employees) = 3
    /\ Len(products) > Len(pre.products)

\* C14: is_valid_json ends, for every payload text, by returning true when
\* the payload satisfies the schema, false when it violates it, and false
\* when the schema file cannot be decoded; it has no other outcome.
C14_JsonValidatorTotal ==
    (/\ req.method = "CALL" /\ req.fam = "is_valid_json"
     /\ val.file \in {"ok", "undecodable"}) =>
        val.out = IF val.file = "undecodable" THEN "false"
                  ELSE IF req.conforms THEN "true" ELSE "false"

\* the lists with every uuid replaced by one value: two outcomes that
\* differ only in which random identifiers were drawn are the same outcome
BlindRecord(d) == [f \in DOMAIN d |-> IF d[f].t = "uuid" THEN PyUuid(0) ELSE d[f]]
Blind(lists) ==
    [name \in DOMAIN lists |-> [i \in 1..Len(lists[name]) |-> BlindRecord(lists[name][i])]]

SeedLists == [products |-> SeedProducts, employees |-> SeedEmployees,
              customers |-> SeedCustomers, sales |-> SeedSales]

\* the outcome of handling first, then second, one after the other on the
\* seed data; the statuses are listed as <<status of a, status of b>>
SerialOutcome(first, second, firstIsA) ==
    LET o1 == Handle(first, SeedLists, 0, "ok")
        o2 == Handle(second, o1.lists, o1.uuids, "ok")
    IN [lists |-> Blind(o2.lists),
        statuses |-> IF firstIsA THEN <<o1.resp.status, o2.resp.status>>
                     ELSE <<o2.resp.status, o1.resp.status>>]

SerialOutcomes(a, b) == {SerialOutcome(a, b, TRUE), SerialOutcome(b, a, FALSE)}

BothDone == \A t \in Threads : thr[t].pc = "done"

ThreadsOutcome == [lists |-> Blind(Lists), statuses |-> <<thr[1].status, thr[2].status>>]

NotSerial == BothDone /\ ThreadsOutcome \notin SerialOutcomes(thr[1].r, thr[2].r)

\* C16: two requests handled by interleaved threads can end in an outcome
\* that no serial order of the same two requests gives (C16_Witness is such
\* a state), and every such outcome is of one kind: two DELETEs of the same
\* identifier that both read the record before either removed it, so that
\* one answers 200 and the other fails on a record already removed.
C16_RaceIsDoubleDelete ==
    NotSerial =>
        /\ thr[1].r.method = "DELETE" /\ thr[2].r = thr[1].r
        /\ thr[1].rec = thr[2].rec
        /\ {thr[1].status, thr[2].status} = {200, 500}
        /\ Len(Lists[ListOf(thr[1].r.fam)]) = 2

C16_Witness ==
    /\ NotSerial
    /\ thr[1].r = DeleteReq("product", "1")
    /\ thr[1].status = 200 /\ thr[2].status = 500
    /\ Len(products) = 2

\* the loop of the PUT view named by the last request, run on the list
\* that request found
PutLoop == PutScan(ListBefore(req.fam), 1, PutField(req.fam), PyStr(req.path))

\* how many records that loop inspects
PutInspected == IF PutLoop.kind = "end" THEN Len(ListBefore(req.fam)) ELSE PutLoop.index

\* the positions at which the loop leaves the scan: a record without the
\* compared field, or one whose field equals the path value
PutStops ==
    {i \in 1..Len(ListBefore(req.fam)) :
        \/ ~HasKey(ListBefore(req.fam)[i], PutField(req.fam))
        \/ PyEq(ListBefore(req.fam)[i][PutField(req.fam)], PyStr(req.path))}

Created(record) == \E f \in DOMAIN record : record[f].t = "uuid"

\* C22: a record created by POST is never removed: whatever request comes
\* next, every created record held by a list is still held by that list
\* after the request.
C22_CreatedRecordStays ==
    [][\A name \in DOMAIN Lists :
          \A i \in 1..Len(Lists[name]) :
              Created(Lists[name][i]) =>
                  \E j \in 1..Len(Lists'[name]) : Lists'[name][j] = Lists[name][i]]_vars

\* the position of a record in a list, 0 when the list does not hold it
Position(l, record) == ListIndex(l, record, 1)

\* C23: each list keeps insertion order over a request: two records the
\* list held before the request and holds after it are in the same relative
\* order, and a record the request added stands after every record the list
\* already held.
C23_InsertionOrderKept ==
    \A name \in DOMAIN Lists :
        LET old == pre[name]
            new == Lists[name]
        IN /\ \A i, j \in 1..Len(old) :
                 (i < j /\ Position(new, old[i]) # 0 /\ Position(new, old[j]) # 0) =>
                     Position(new, old[i]) < Position(new, old[j])
           /\ \A k \in 1..Len(new) :
                 Position(old, new[k]) = 0 =>
                     \A i \in 1..Len(old) :
                         Position(new, old[i]) # 0 => Position(new, old[i]) < k

\* a POST has added a record to the two records a DELETE had left
C23_Witness ==
    /\ req.method = "POST"
    /\ resp.status = 200
    /\ Len(pre.products) = 2
    /\ products = <<SeedProducts[2], SeedProducts[3], products[3]>>
    /\ Created(products[3])

\* C24: a POST or PUT that takes the JSON branch with a body that is valid
\* JSON but empty or falsy ({}, [], 0, false, null) is answered with 400 and
\* changes no list.
C24_FalsyJsonRejected ==
    (/\ req.method \in {"POST", "PUT"}
     /\ req.ctype # XmlContentType
     /\ req.data \in FalsyBodies) =>
        (resp.status = 400 /\ Lists = pre)

\* C25: the form lookup always produces a page: for every integer input
\* and every state of the lists it renders the matching record or the
\* "No result" page, also for an identifier of the seed range whose record
\* has been deleted.
C25_LookupAlwaysRendersPage ==
    (req.method = "FORM" /\ int(req.path).ok) =>
        /\ resp.status = 200
        /\ resp.kind \in {"page", "noresult"}

Running == thr[1].pc \notin {"none", "done"}

\* C27: every handler terminates: once the body of a PUT or DELETE view
\* runs, its loop ends after finitely many iterations, also when the view
\* appends to or removes from the list it iterates over, and the request
\* reaches its outcome.
C27_HandlerTerminates == Running ~> (thr[1].pc = "done")

\* a PUT view has appended to the list it was iterating over and returned
C27_Witness ==
    /\ thr[1].pc = "done"
    /\ thr[1].r.method = "PUT"
    /\ thr[1].status = 200
    /\ thr[1].i = 4
    /\ Len(products) = 5

====
